---- MODULE Spec2Model ----
(***************************************************************************)
(* Model of annoliate's request router (src/annoliate/router.py).          *)
(*                                                                         *)
(* Strings are sequences of one-character strings, so that splitting on    *)
(* "/" and the scan for "{...}" placeholders are computed, not assumed.    *)
(* Python objects are records holding exactly the attributes that the      *)
(* constructors assign; reading an attribute that was never assigned       *)
(* raises AttributeError, as it does for an empty __slots__ entry.         *)
(***************************************************************************)
EXTENDS Integers, Sequences, FiniteSets, TLC

\* ------------------------------------------------------------------------
\* Bounds
\* ------------------------------------------------------------------------

\* Number of register/dispatch calls made on the router.
MaxCalls == 3

\* ------------------------------------------------------------------------
\* Python values
\* ------------------------------------------------------------------------

\* Python's None, and a present value, for optional string results.
None == [some |-> FALSE, val |-> <<>>]

Some(v) == [some |-> TRUE, val |-> v]

\* Outcome of a call: a returned value or a raised exception.
Return(v) == [kind |-> "return", type |-> "value", val |-> v]

Raise(type, msg) == [kind |-> "raise", type |-> type, val |-> msg]

\* ValueError raised while _Route.make examines a template.
ValueErrorTemplate == Raise("ValueError", "template")

\* ValueError('Route already found in router!', route_str)
ValueErrorDuplicate == Raise("ValueError", "Route already found in router!")

\* Reading the slot `segments`, which no constructor assigns.
AttributeError == Raise("AttributeError", "segments")

\* well_formed_path[0] on the empty string.
IndexError == Raise("IndexError", "string index out of range")

MissingRoute == Raise("MissingRoute", "Route not found in router")

\* The two sentinel objects used as keys of the trie.
TERMINATOR == [kind |-> "sentinel", text |-> <<"TERMINATOR">>]

CAPTURE_SEGMENT == [kind |-> "sentinel", text |-> <<"CAPTURE_SEGMENT">>]

\* A literal segment (a Python str) and a _CaptureSegment(name=...).
Literal(text) == [kind |-> "str", text |-> text]

_CaptureSegment(name) == [kind |-> "capture", text |-> name]

\* ------------------------------------------------------------------------
\* str.split('/') and string.Formatter().parse
\* ------------------------------------------------------------------------

\* A character put in front of the first component of a split.
PrependChar(c, components) ==
    << <<c>> \o Head(components) >> \o Tail(components)

RECURSIVE str_split(_)
\* path_str.split('/'): always at least one component.
str_split(s) ==
    IF s = <<>> THEN << <<>> >>
    ELSE IF Head(s) = "/" THEN << <<>> >> \o str_split(Tail(s))
    ELSE PrependChar(Head(s), str_split(Tail(s)))

RECURSIVE IndexOf(_, _, _)
\* First position >= i of a character of cs in s, or 0.
IndexOf(s, i, cs) ==
    IF i > Len(s) THEN 0
    ELSE IF s[i] \in cs THEN i
    ELSE IndexOf(s, i + 1, cs)

RECURSIVE MatchClose(_, _, _)
\* Position of the "}" closing a field opened before position i (nesting
\* depth n), or 0 when the string ends first.
MatchClose(s, i, n) ==
    IF i > Len(s) THEN 0
    ELSE IF s[i] = "{" THEN MatchClose(s, i + 1, n + 1)
    ELSE IF s[i] = "}" THEN (IF n = 1 THEN i ELSE MatchClose(s, i + 1, n - 1))
    ELSE MatchClose(s, i + 1, n)

\* The text f between "{" and "}" split into name, conversion and format
\* spec, k being the position of the first "!" or ":" in f (0 for none).
ParseFieldAt(f, k) ==
    IF k = 0 THEN [exc |-> FALSE, name |-> f, spec |-> <<>>, conv |-> None]
    ELSE IF f[k] = ":"
         THEN [exc |-> FALSE, name |-> SubSeq(f, 1, k - 1),
               spec |-> SubSeq(f, k + 1, Len(f)), conv |-> None]
    ELSE IF k = Len(f)
         THEN [exc |-> TRUE, name |-> <<>>, spec |-> <<>>, conv |-> None]
    ELSE IF k + 1 = Len(f)
         THEN [exc |-> FALSE, name |-> SubSeq(f, 1, k - 1),
               spec |-> <<>>, conv |-> Some(<<f[k + 1]>>)]
    ELSE IF f[k + 2] = ":"
         THEN [exc |-> FALSE, name |-> SubSeq(f, 1, k - 1),
               spec |-> SubSeq(f, k + 3, Len(f)), conv |-> Some(<<f[k + 1]>>)]
    ELSE [exc |-> TRUE, name |-> <<>>, spec |-> <<>>, conv |-> None]

ParseField(f) == ParseFieldAt(f, IndexOf(f, 1, {"!", ":"}))

\* One (literal_text, field_name, format_spec, conversion) tuple.
StdlibTuple(lit, name, spec, conv) ==
    [literal_text |-> lit, field_name |-> name, fmt_spec |-> spec,
     conversion |-> conv]

RECURSIVE MarkupIterator(_, _, _, _)
RECURSIVE MarkupField(_, _, _, _, _)
RECURSIVE MarkupParsed(_, _, _, _, _)
\* The scan of string.Formatter.parse from position i on, lit being the
\* literal text collected so far and acc the tuples already yielded.
MarkupIterator(s, i, lit, acc) ==
    IF i > Len(s)
    THEN [exc |-> FALSE,
          tuples |-> IF lit = <<>> THEN acc
                     ELSE Append(acc, StdlibTuple(lit, None, None, None))]
    ELSE IF s[i] = "{"
    THEN IF i = Len(s) THEN [exc |-> TRUE, tuples |-> <<>>]
         ELSE IF s[i + 1] = "{"
         THEN MarkupIterator(s, i + 2, <<>>,
                  Append(acc, StdlibTuple(Append(lit, "{"), None, None, None)))
         ELSE MarkupField(s, i, lit, acc, MatchClose(s, i + 1, 1))
    ELSE IF s[i] = "}"
    THEN IF i < Len(s) /\ s[i + 1] = "}"
         THEN MarkupIterator(s, i + 2, <<>>,
                  Append(acc, StdlibTuple(Append(lit, "}"), None, None, None)))
         ELSE [exc |-> TRUE, tuples |-> <<>>]
    ELSE MarkupIterator(s, i + 1, Append(lit, s[i]), acc)

\* A replacement field opened at position i and closed at position j
\* (0 when the string ends before the closing brace).
MarkupField(s, i, lit, acc, j) ==
    IF j = 0 THEN [exc |-> TRUE, tuples |-> <<>>]
    ELSE MarkupParsed(s, lit, acc, j, ParseField(SubSeq(s, i + 1, j - 1)))

\* The tuple yielded for the parsed field f, then the scan after it.
MarkupParsed(s, lit, acc, j, f) ==
    IF f.exc THEN [exc |-> TRUE, tuples |-> <<>>]
    ELSE MarkupIterator(s, j + 1, <<>>,
             Append(acc, StdlibTuple(lit, Some(f.name), Some(f.spec),
                                     f.conv)))

\* list(_FORMATTER.parse(component)); exc stands for the parser's ValueError.
FormatterParse(component) == MarkupIterator(component, 1, <<>>, <<>>)

\* ------------------------------------------------------------------------
\* Route model
\* ------------------------------------------------------------------------

\* hasattr(obj, name): whether a constructor assigned the attribute.
HasAttr(obj, name) == name \in DOMAIN obj

\* bool(x) of an optional string: None and '' are falsy.
Truthy(opt) == opt.some /\ opt.val # <<>>

\* _Route.__init__: stores the hash of the segment tuple (modelled by the
\* tuple itself, an injective hash) and nothing else; `segments` stays unset.
\* id stands for the identity of the new object.
_Route__init__(cls, segments, id) ==
    [cls |-> cls, id |-> id, _hash |-> segments]

\* _Route.__eq__ followed by Python's fallback: when reading `segments`
\* raises on either side both __eq__ calls return NotImplemented and the
\* comparison falls back to identity.
_Route__eq__(self, other) ==
    IF HasAttr(self, "segments") /\ HasAttr(other, "segments")
    THEN self.segments = other.segments
    ELSE self.id = other.id

\* The loop `for index, segment in self.segments` of _DynamicRoute.__init__
\* on an object whose slot is set: each element is unpacked into two
\* values; a _CaptureSegment is not iterable and only a str of length two
\* unpacks, and then neither half is a _CaptureSegment.
capture_map_loop(self, bad) ==
    IF bad = {}
    THEN [ok |-> TRUE, route |-> [cls |-> self.cls, id |-> self.id,
                                  _hash |-> self._hash,
                                  segments |-> self.segments,
                                  capture_map |-> <<>>]]
    ELSE IF self.segments[CHOOSE k \in bad : \A j \in bad : k <= j].kind
            = "capture"
    THEN [ok |-> FALSE, exc |-> Raise("TypeError", "unpack")]
    ELSE [ok |-> FALSE, exc |-> Raise("ValueError", "unpack")]

\* The body of _DynamicRoute.__init__ after the base constructor returned
\* self: the capture map is built from self.segments, an unset slot.
capture_map_init(self) ==
    IF ~HasAttr(self, "segments")
    THEN [ok |-> FALSE, exc |-> AttributeError]
    ELSE capture_map_loop(self, {k \in 1..Len(self.segments) :
                                    self.segments[k].kind = "capture"
                                    \/ Len(self.segments[k].text) # 2})

\* _DynamicRoute.__init__
_DynamicRoute__init__(segments, id) ==
    capture_map_init(_Route__init__("_DynamicRoute", segments, id))

RECURSIVE make_loop(_, _, _)
RECURSIVE make_component(_, _, _, _)
RECURSIVE make_segment(_, _, _, _)
\* The loop over the components of a template: the segments collected so
\* far and is_dynamic, or the ValueError raised on the first bad component.
make_loop(components, segments, is_dynamic) ==
    IF components = <<>>
    THEN [ok |-> TRUE, segments |-> segments, is_dynamic |-> is_dynamic]
    ELSE make_component(components, segments, is_dynamic,
                        FormatterParse(Head(components)))

\* The checks on list(_FORMATTER.parse(component)).
make_component(components, segments, is_dynamic, stdlib_tuples) ==
    IF stdlib_tuples.exc THEN [ok |-> FALSE, exc |-> ValueErrorTemplate]
    ELSE IF Len(stdlib_tuples.tuples) > 1
    THEN [ok |-> FALSE, exc |-> ValueErrorTemplate]
    \* stdlib_tuple, = stdlib_tuples
    ELSE IF Len(stdlib_tuples.tuples) # 1
    THEN [ok |-> FALSE, exc |-> ValueErrorTemplate]
    ELSE make_segment(components, segments, is_dynamic,
                      stdlib_tuples.tuples[1])

\* The checks on the single tuple t of a component, and its segment.
make_segment(components, segments, is_dynamic, t) ==
    IF Truthy(t.fmt_spec) \/ Truthy(t.conversion)
    THEN [ok |-> FALSE, exc |-> ValueErrorTemplate]
    ELSE IF t.field_name = Some(<<>>)
    THEN [ok |-> FALSE, exc |-> ValueErrorTemplate]
    ELSE IF t.literal_text = <<>>
    THEN [ok |-> FALSE, exc |-> ValueErrorTemplate]
    ELSE IF t.field_name = None
    THEN make_loop(Tail(components),
                   Append(segments, Literal(t.literal_text)), is_dynamic)
    ELSE make_loop(Tail(components),
                   Append(segments, _CaptureSegment(t.field_name.val)), TRUE)

\* components = path_str.split('/') without a leading empty component.
make_components(split) == IF split[1] = <<>> THEN Tail(split) ELSE split

\* make_route ignoring is_dynamic: every template that passes the loop
\* becomes a _StaticRoute, capture segments included.
make_route_always_static(loop, id) ==
    IF ~loop.ok THEN [ok |-> FALSE, exc |-> loop.exc]
    ELSE [ok |-> TRUE,
          route |-> _Route__init__("_StaticRoute", loop.segments, id)]

\* The end of _Route.make: the route built from the result of the loop.
make_route(loop, id) ==
    IF ~loop.ok THEN [ok |-> FALSE, exc |-> loop.exc]
    ELSE IF loop.is_dynamic THEN _DynamicRoute__init__(loop.segments, id)
    ELSE [ok |-> TRUE,
          route |-> _Route__init__("_StaticRoute", loop.segments, id)]

\* _Route.make(path_str)
make(path_str, id) ==
    make_route(make_loop(make_components(str_split(path_str)), <<>>, FALSE),
               id)

\* The list of str segments of an incoming path.
StrSegments(components) ==
    [k \in 1..Len(components) |-> Literal(components[k])]

\* _StaticRoute.parse(well_formed_path)
parse(well_formed_path, id) ==
    IF well_formed_path = <<>> THEN [ok |-> FALSE, exc |-> IndexError]
    ELSE [ok |-> TRUE,
          route |-> _Route__init__(
                        "_StaticRoute",
                        StrSegments(IF well_formed_path[1] = "/"
                                    THEN str_split(Tail(well_formed_path))
                                    ELSE str_split(well_formed_path)),
                        id)]

\* ------------------------------------------------------------------------
\* Router
\* ------------------------------------------------------------------------

VARIABLES
    static_lookup,   \* Router._static_lookup: set of [key, value] items
    dynamic_lookup,  \* Router._dynamic_lookup: the trie
    next_id,         \* identity of the next object constructed
    history          \* the calls made so far, with their outcomes

vars == <<static_lookup, dynamic_lookup, next_id, history>>

\* `route in d` for a dict keyed by routes: equal hash, then identity or
\* __eq__.
DictContains(d, route) ==
    \E item \in d : item.key._hash = route._hash
                    /\ _Route__eq__(item.key, route)

\* d[route]
DictGet(d, route) ==
    (CHOOSE item \in d : item.key._hash = route._hash
                         /\ _Route__eq__(item.key, route)).value

\* An assignment that forgets every other entry of the dict.
DictSetAlone(d, route, value) == {[key |-> route, value |-> value]}

\* d[route] = value: replaces the value under an equal key, else inserts.
DictSet(d, route, value) ==
    IF DictContains(d, route)
    THEN {IF item.key._hash = route._hash /\ _Route__eq__(item.key, route)
          THEN [key |-> item.key, value |-> value] ELSE item : item \in d}
    ELSE d \cup {[key |-> route, value |-> value]}

\* The trie of nested dicts: nodes holds, for every dict of the tree, the
\* sequence of keys leading to it from the root; term holds the TERMINATOR
\* entries as [at |-> node, route |-> stored route].
EmptyTrie == [nodes |-> {<<>>}, term |-> {}]

\* `segment in current_lookup`
HasChild(trie, node, key) == Append(node, key) \in trie.nodes

\* `TERMINATOR in current_lookup`
HasTerminator(trie, node) == \E t \in trie.term : t.at = node

RECURSIVE dispatch_walk(_, _, _)
\* The for loop of _dispatch_dynamic from current_lookup = node on: the
\* node reached, or MissingRoute.
dispatch_walk(trie, node, segments) ==
    IF segments = <<>> THEN [ok |-> TRUE, node |-> node]
    ELSE IF HasChild(trie, node, Head(segments))
    THEN dispatch_walk(trie, Append(node, Head(segments)), Tail(segments))
    ELSE IF HasChild(trie, node, CAPTURE_SEGMENT)
    THEN dispatch_walk(trie, Append(node, CAPTURE_SEGMENT), Tail(segments))
    ELSE [ok |-> FALSE, exc |-> MissingRoute]

\* The Router instance: the state as the methods see it through `self`.
Router ==
    [static_lookup |-> static_lookup, dynamic_lookup |-> dynamic_lookup,
     next_id |-> next_id]

\* The terminator check of _dispatch_dynamic after the walk.
dispatch_terminator(self, walk) ==
    IF ~walk.ok THEN walk
    ELSE IF HasTerminator(self.dynamic_lookup, walk.node)
    THEN [ok |-> TRUE,
          route |-> (CHOOSE t \in self.dynamic_lookup.term :
                         t.at = walk.node).route]
    ELSE [ok |-> FALSE, exc |-> MissingRoute]

\* Router._dispatch_dynamic(self, incoming_route)
_dispatch_dynamic(self, incoming_route) ==
    IF ~HasAttr(incoming_route, "segments")
    THEN [ok |-> FALSE, exc |-> AttributeError]
    ELSE dispatch_terminator(self,
                             dispatch_walk(self.dynamic_lookup, <<>>,
                                           incoming_route.segments))

\* `.handler` of the route found, or the exception on its way up.
dispatch_handler(found) ==
    IF found.ok THEN Return(found.route.handler) ELSE found.exc

\* Router.dispatch(self, incoming_route): the handler returned, or the
\* exception.
dispatch(self, incoming_route) ==
    IF DictContains(self.static_lookup, incoming_route)
    THEN Return(DictGet(self.static_lookup, incoming_route))
    ELSE dispatch_handler(_dispatch_dynamic(self, incoming_route))

\* The trie key of a route segment: captures collapse to CAPTURE_SEGMENT.
TrieKey(segment) ==
    IF segment.kind = "capture" THEN CAPTURE_SEGMENT ELSE segment

\* The for loop of register: every dict on the way down exists afterwards.
register_walk(trie, segments) ==
    [nodes |-> trie.nodes \cup
                  {[j \in 1..k |-> TrieKey(segments[j])] :
                       k \in 0..Len(segments)},
     term |-> trie.term]

\* The end of the dynamic branch of register, walked being the trie after
\* the loop and final the dict it ended in.  The store of the terminator
\* follows the raise inside the if block and is never executed.
register_terminator(self, walked, final, allow_overwrite) ==
    IF HasTerminator(walked, final) /\ ~allow_overwrite
    THEN [outcome |-> ValueErrorDuplicate,
          static_lookup |-> self.static_lookup, dynamic_lookup |-> walked]
    ELSE [outcome |-> Return("None"),
          static_lookup |-> self.static_lookup, dynamic_lookup |-> walked]

\* register_route with the handler stored before the template is known to
\* be valid: a failed parse leaves an entry behind in the static table.
register_route_store_first(self, made, handler, allow_overwrite) ==
    IF ~made.ok
    THEN [outcome |-> made.exc,
          static_lookup |->
              self.static_lookup \cup
              {[key |-> _Route__init__("_StaticRoute", <<>>, self.next_id),
                value |-> handler]},
          dynamic_lookup |-> self.dynamic_lookup]
    ELSE [outcome |-> Return("None"),
          static_lookup |-> DictSet(self.static_lookup, made.route, handler),
          dynamic_lookup |-> self.dynamic_lookup]

\* The body of register after route = _Route.make(route_str), made being
\* the route or the exception that make raised.
register_route(self, made, handler, allow_overwrite) ==
    IF ~made.ok
    THEN [outcome |-> made.exc, static_lookup |-> self.static_lookup,
          dynamic_lookup |-> self.dynamic_lookup]
    ELSE IF made.route.cls = "_StaticRoute"
    THEN IF DictContains(self.static_lookup, made.route) /\ ~allow_overwrite
         THEN [outcome |-> ValueErrorDuplicate,
               static_lookup |-> self.static_lookup,
               dynamic_lookup |-> self.dynamic_lookup]
         ELSE [outcome |-> Return("None"),
               static_lookup |->
                   DictSet(self.static_lookup, made.route, handler),
               dynamic_lookup |-> self.dynamic_lookup]
    \* route.handler = handler, then `for segment in route.segments`
    ELSE IF ~HasAttr(made.route, "segments")
    THEN [outcome |-> AttributeError, static_lookup |-> self.static_lookup,
          dynamic_lookup |-> self.dynamic_lookup]
    ELSE register_terminator(
             self,
             register_walk(self.dynamic_lookup, made.route.segments),
             [j \in 1..Len(made.route.segments) |->
                 TrieKey(made.route.segments[j])],
             allow_overwrite)

\* Router.register(self, route_str, handler, allow_overwrite): the outcome
\* and the two lookups after the call.
register(self, route_str, handler, allow_overwrite) ==
    register_route(self, make(route_str, self.next_id), handler,
                   allow_overwrite)

\* ------------------------------------------------------------------------
\* Inputs
\* ------------------------------------------------------------------------

\* Templates passed to register: '/a', '/{i}', '/{n}', '/{i}/b/{j}',
\* '/{i}-{j}' and '/p{i}'.
T_a == <<"/", "a">>

T_i == <<"/", "{", "i", "}">>

T_n == <<"/", "{", "n", "}">>

T_ibj == <<"/", "{", "i", "}", "/", "b", "/", "{", "j", "}">>

T_ij == <<"/", "{", "i", "}", "-", "{", "j", "}">>

T_pi == <<"/", "p", "{", "i", "}">>

\* The overlapping pair '/a/{x}/c' and '/a/b/d'.
T_axc == <<"/", "a", "/", "{", "x", "}", "/", "c">>

T_abd == <<"/", "a", "/", "b", "/", "d">>

Templates == {T_a, T_i, T_n, T_ibj, T_ij, T_pi, T_axc, T_abd}

\* Incoming paths: '/a', '/a/b' and '/a/b/c'.
P_a == <<"/", "a">>

P_ab == <<"/", "a", "/", "b">>

P_abc == <<"/", "a", "/", "b", "/", "c">>

Paths == {P_a, P_ab, P_abc}

\* Opaque handler references.
Handlers == {"H1", "H2"}

\* Components from which the templates given to _Route.make are built:
\* a, b, {x}, {y}, {}, {x}-{y}, {x}{y}, {x!r}, {x:d}, p{x}, {x}s, p{x}s,
\* the empty component, {{, a} and {x.
Components ==
    { <<"a">>, <<"b">>, <<"{", "x", "}">>, <<"{", "y", "}">>, <<"{", "}">>,
      <<"{", "x", "}", "-", "{", "y", "}">>,
      <<"{", "x", "}", "{", "y", "}">>,
      <<"{", "x", "!", "r", "}">>, <<"{", "x", ":", "d", "}">>,
      <<"p", "{", "x", "}">>, <<"{", "x", "}", "s">>,
      <<"p", "{", "x", "}", "s">>, <<>>, <<"{", "{">>, <<"a", "}">>,
      <<"{", "x">> }

\* Templates of one or two components, with and without the leading slash.
MakeTemplates ==
    LET bodies == Components \cup
                  {c1 \o <<"/">> \o c2 : c1 \in Components, c2 \in Components}
    IN  bodies \cup {<<"/">> \o b : b \in bodies}

\* ------------------------------------------------------------------------
\* Calls
\* ------------------------------------------------------------------------

\* The route field of a call that yields no route.
NoRoute == [cls |-> "none"]

\* One entry of history.
Call(op, arg, handler, allow_overwrite, outcome, route) ==
    [op |-> op, arg |-> arg, handler |-> handler,
     allow_overwrite |-> allow_overwrite, outcome |-> outcome,
     route |-> route]

Init ==
    /\ static_lookup = {}
    /\ dynamic_lookup = EmptyTrie
    /\ next_id = 1
    /\ history = <<>>

\* Router.__init__: the instance just constructed.
NewRouter ==
    [static_lookup |-> {}, dynamic_lookup |-> EmptyTrie, next_id |-> 1]

\* self after a register call that ended as r; the route object made by
\* the call took the next identity.
AfterRegister(self, r) ==
    [static_lookup |-> r.static_lookup, dynamic_lookup |-> r.dynamic_lookup,
     next_id |-> self.next_id + 1]

RECURSIVE Replay(_, _)
\* The router reached from self by making the calls one after the other:
\* register calls with their arguments, dispatch calls for the route object
\* they parse.
Replay(self, calls) ==
    IF calls = <<>> THEN self
    ELSE IF Head(calls).op = "register"
    THEN Replay(AfterRegister(self,
                              register(self, Head(calls).arg,
                                       Head(calls).handler,
                                       Head(calls).allow_overwrite)),
                Tail(calls))
    ELSE Replay([self EXCEPT !.next_id = @ + 1], Tail(calls))

\* router.register(route_str, handler, allow_overwrite)
Register(route_str, handler, allow_overwrite) ==
    /\ Len(history) < MaxCalls
    /\ \E r \in {register(Router, route_str, handler, allow_overwrite)} :
       /\ static_lookup' = r.static_lookup
       /\ dynamic_lookup' = r.dynamic_lookup
       /\ history' = Append(history,
                            Call("register", route_str, handler,
                                 allow_overwrite, r.outcome, NoRoute))
    /\ next_id' = next_id + 1

\* The outcome of dispatching the parsed incoming route.
dispatch_parsed(self, incoming) ==
    IF incoming.ok THEN dispatch(self, incoming.route) ELSE incoming.exc

\* Dispatch that remembers the incoming route in the static table.
DispatchCaching(path) ==
    /\ Len(history) < MaxCalls
    /\ history' = Append(history,
                         Call("dispatch", path, "-", FALSE,
                              dispatch_parsed(Router, parse(path, next_id)),
                              NoRoute))
    /\ next_id' = next_id + 1
    /\ static_lookup' = DictSet(static_lookup, parse(path, next_id).route,
                                "-")
    /\ UNCHANGED dynamic_lookup

\* router.dispatch(_StaticRoute.parse(path))
Dispatch(path) ==
    /\ Len(history) < MaxCalls
    /\ history' = Append(history,
                         Call("dispatch", path, "-", FALSE,
                              dispatch_parsed(Router, parse(path, next_id)),
                              NoRoute))
    /\ next_id' = next_id + 1
    /\ UNCHANGED <<static_lookup, dynamic_lookup>>

Next ==
    \/ \E t \in Templates, h \in Handlers, o \in BOOLEAN : Register(t, h, o)
    \/ \E p \in Paths : Dispatch(p)

Spec == Init /\ [][Next]_vars

\* _Route.make(path_str), applied once to a template drawn from
\* MakeTemplates.
Make(path_str) ==
    /\ history = <<>>
    /\ \E made \in {make(path_str, next_id)} :
       history' = Append(history,
                         Call("make", path_str, "-", FALSE,
                              IF made.ok THEN Return("route") ELSE made.exc,
                              IF made.ok THEN made.route ELSE NoRoute))
    /\ next_id' = next_id + 1
    /\ UNCHANGED <<static_lookup, dynamic_lookup>>

NextMake == \E t \in MakeTemplates : Make(t)

SpecMake == Init /\ [][NextMake]_vars

\* The number of make and parse calls of one behaviour of SpecParse.
MaxParses == 2

\* Texts without leading slash: 'a', 'a/b', '{x}', 'b'.
Bodies ==
    {<<"a">>, <<"a", "/", "b">>, <<"{", "x", "}">>, <<"b">>}

\* Every body as it is and behind a leading slash.
PathStrings == Bodies \cup {<<"/">> \o body : body \in Bodies}

\* route = _Route.make(path_str), kept for later comparison.
MakeRoute(path_str) ==
    /\ Len(history) < MaxParses
    /\ \E made \in {make(path_str, next_id)} :
       history' = Append(history,
                         Call("make", path_str, "-", FALSE,
                              IF made.ok THEN Return("route") ELSE made.exc,
                              IF made.ok THEN made.route ELSE NoRoute))
    /\ next_id' = next_id + 1
    /\ UNCHANGED <<static_lookup, dynamic_lookup>>

\* route = _StaticRoute.parse(well_formed_path), kept for later comparison.
ParseRoute(well_formed_path) ==
    /\ Len(history) < MaxParses
    /\ \E parsed \in {parse(well_formed_path, next_id)} :
       history' = Append(history,
                         Call("parse", well_formed_path, "-", FALSE,
                              IF parsed.ok THEN Return("route")
                              ELSE parsed.exc,
                              IF parsed.ok THEN parsed.route ELSE NoRoute))
    /\ next_id' = next_id + 1
    /\ UNCHANGED <<static_lookup, dynamic_lookup>>

NextParse ==
    \/ \E t \in PathStrings : MakeRoute(t)
    \/ \E p \in PathStrings : ParseRoute(p)

SpecParse == Init /\ [][NextParse]_vars

\* ------------------------------------------------------------------------
\* The template language, as the routing contract words it
\* ------------------------------------------------------------------------

\* Positions of the opening and of the closing braces of a component.
Opens(c) == {k \in 1..Len(c) : c[k] = "{"}

Closes(c) == {k \in 1..Len(c) : c[k] = "}"}

\* No brace strictly between positions a and b.
NoBraceBetween(c, a, b) == \A k \in (a + 1)..(b - 1) : c[k] \notin {"{", "}"}

\* The braces of c pair up as placeholders {...} that do not nest.
Paired(c) ==
    /\ \A o \in Opens(c) : \E e \in Closes(c) : o < e /\ NoBraceBetween(c, o, e)
    /\ \A e \in Closes(c) : \E o \in Opens(c) : o < e /\ NoBraceBetween(c, o, e)

\* The closing brace of the placeholder opened at o.
CloseOf(c, o) == CHOOSE e \in Closes(c) : o < e /\ NoBraceBetween(c, o, e)

MultiplePlaceholders(c) == Cardinality(Opens(c)) > 1

EmptyName(c) == \E o \in Opens(c) : c[o + 1] \in {"}", "!", ":"}

Annotated(c) ==
    \E o \in Opens(c) : \E k \in (o + 1)..(CloseOf(c, o) - 1) :
        c[k] \in {"!", ":"}

MixedText(c) ==
    /\ Opens(c) # {}
    /\ \E k \in 1..Len(c) : \A o \in Opens(c) : k < o \/ k > CloseOf(c, o)

\* A component that is malformed in one of the four listed ways.
MalformedComponent(c) ==
    /\ Paired(c)
    /\ MultiplePlaceholders(c) \/ EmptyName(c) \/ Annotated(c) \/ MixedText(c)

\* A component that is exactly {name} with a non-empty name.
CaptureComponent(c) ==
    /\ Paired(c)
    /\ Cardinality(Opens(c)) = 1
    /\ ~EmptyName(c) /\ ~Annotated(c) /\ ~MixedText(c)

\* A component without any placeholder.
LiteralComponent(c) == Opens(c) = {} /\ Closes(c) = {} /\ c # <<>>

\* The components of a template or path: split on "/", leading slash
\* dropped.
ComponentsOf(t) == make_components(str_split(t))

Malformed(t) ==
    \E k \in 1..Len(ComponentsOf(t)) : MalformedComponent(ComponentsOf(t)[k])

WellFormed(t) ==
    /\ ComponentsOf(t) # <<>>
    /\ \A k \in 1..Len(ComponentsOf(t)) :
           CaptureComponent(ComponentsOf(t)[k])
           \/ LiteralComponent(ComponentsOf(t)[k])

\* A well-formed template with at least one capture, and one with none.
DynamicTemplate(t) ==
    /\ WellFormed(t)
    /\ \E k \in 1..Len(ComponentsOf(t)) : CaptureComponent(ComponentsOf(t)[k])

StaticTemplate(t) ==
    /\ WellFormed(t)
    /\ \A k \in 1..Len(ComponentsOf(t)) : LiteralComponent(ComponentsOf(t)[k])

\* Path p matches template t: same number of segments, equal text at every
\* literal position.
Matches(t, p) ==
    /\ Len(ComponentsOf(t)) = Len(ComponentsOf(p))
    /\ \A k \in 1..Len(ComponentsOf(t)) :
           LiteralComponent(ComponentsOf(t)[k])
           => ComponentsOf(t)[k] = ComponentsOf(p)[k]

\* Two templates occupy the same trie position: equal literals, captures at
\* the same positions whatever their names.
SameShape(t, u) ==
    /\ Len(ComponentsOf(t)) = Len(ComponentsOf(u))
    /\ \A k \in 1..Len(ComponentsOf(t)) :
           \/ CaptureComponent(ComponentsOf(t)[k])
              /\ CaptureComponent(ComponentsOf(u)[k])
           \/ LiteralComponent(ComponentsOf(t)[k])
              /\ ComponentsOf(t)[k] = ComponentsOf(u)[k]

\* Template u is t followed by further segments.
Extends(u, t) ==
    /\ Len(ComponentsOf(t)) < Len(ComponentsOf(u))
    /\ SubSeq(ComponentsOf(u), 1, Len(ComponentsOf(t))) = ComponentsOf(t)

\* ------------------------------------------------------------------------
\* Properties
\* ------------------------------------------------------------------------

Calls == 1..Len(history)

IsRegister(i) == history[i].op = "register"

IsDispatch(i) == history[i].op = "dispatch"

\* The register calls of history that returned normally.
Registered(i) == IsRegister(i) /\ history[i].outcome.kind = "return"

\* The register calls made before call j.
RegistersBefore(j) == {i \in Calls : i < j /\ IsRegister(i)}

\* The step just taken appended a register call to history.
RegisterStep ==
    /\ Len(history') = Len(history) + 1
    /\ history'[Len(history')].op = "register"

\* C1: static round trip.  Whenever register(T, H) returned for a template
\* T without captures and no later register call of T returned, a later
\* dispatch of the path T returns H.
StaticRoundTrip ==
    \A i \in Calls : \A j \in Calls :
        ( /\ i < j
          /\ Registered(i)
          /\ StaticTemplate(history[i].arg)
          /\ IsDispatch(j)
          /\ history[j].arg = history[i].arg
          /\ \A k \in (i + 1)..(j - 1) :
                 ~(Registered(k) /\ history[k].arg = history[i].arg) )
        => history[j].outcome = Return(history[i].handler)

\* C2: dynamic dispatch.  When a well-formed template with at least one
\* capture is the only template ever passed to register, so that nothing
\* stands in the way of its registration, a later dispatch of a path that
\* matches it returns the handler registered with it (the first half of
\* the pair of handler and captures).
DynamicDispatch ==
    \A i \in Calls : \A j \in Calls :
        ( /\ i < j
          /\ RegistersBefore(j) = {i}
          /\ DynamicTemplate(history[i].arg)
          /\ IsDispatch(j)
          /\ Matches(history[i].arg, history[j].arg) )
        => history[j].outcome = Return(history[i].handler)

\* C3: duplicate rejection.  A register call without overwrite of a
\* template that an earlier register call registered fails with the
\* duplicate error and leaves both lookups as they were.
DuplicateRejection ==
    [][ \A i \in Calls :
          ( /\ RegisterStep
            /\ ~history'[Len(history')].allow_overwrite
            /\ Registered(i)
            /\ history[i].arg = history'[Len(history')].arg )
          => /\ history'[Len(history')].outcome = ValueErrorDuplicate
             /\ UNCHANGED <<static_lookup, dynamic_lookup>> ]_vars

\* C4: overwrite.  When a registered template is registered a second time
\* with allow_overwrite, the second call returns and a later dispatch of a
\* matching path returns the second handler.
Overwrite ==
    \A i \in Calls : \A j \in Calls : \A k \in Calls :
        ( /\ i < j /\ j < k
          /\ Registered(i)
          /\ WellFormed(history[i].arg)
          /\ IsRegister(j)
          /\ history[j].arg = history[i].arg
          /\ history[j].allow_overwrite
          /\ RegistersBefore(k) = {i, j}
          /\ IsDispatch(k)
          /\ Matches(history[j].arg, history[k].arg) )
        => /\ Registered(j)
           /\ history[k].outcome = Return(history[j].handler)

\* C5: capture names collapse.  After a well-formed dynamic template was
\* passed to register on a router without registrations, registering
\* without overwrite a template that differs from it only in the names of
\* its captures is rejected as a duplicate.
CaptureNamesCollapse ==
    \A i \in Calls : \A j \in Calls :
        ( /\ i < j
          /\ RegistersBefore(j) = {i}
          /\ IsRegister(j)
          /\ DynamicTemplate(history[i].arg)
          /\ DynamicTemplate(history[j].arg)
          /\ SameShape(history[i].arg, history[j].arg)
          /\ history[i].arg # history[j].arg
          /\ ~history[j].allow_overwrite )
        => history[j].outcome = ValueErrorDuplicate

\* C6: static precedence.  When a static template and a dynamic template
\* that both match a path were passed to register, in either order and
\* with nothing else, dispatching the path returns the static handler.
StaticPrecedence ==
    \A i \in Calls : \A j \in Calls : \A k \in Calls :
        ( /\ i < k /\ j < k
          /\ RegistersBefore(k) = {i, j}
          /\ StaticTemplate(history[i].arg)
          /\ DynamicTemplate(history[j].arg)
          /\ IsDispatch(k)
          /\ Matches(history[i].arg, history[k].arg)
          /\ Matches(history[j].arg, history[k].arg) )
        => history[k].outcome = Return(history[i].handler)

\* C7: prefix independence.  When a dynamic template and a longer dynamic
\* template that extends it were passed to register, in either order and
\* with nothing else, neither call fails as a duplicate, a path matching
\* the shorter one dispatches to its handler, a path matching the longer
\* one to the longer one's handler, and a path matching neither fails with
\* MissingRoute.
PrefixIndependence ==
    \A i \in Calls : \A j \in Calls : \A k \in Calls :
        ( /\ i < k /\ j < k
          /\ RegistersBefore(k) = {i, j}
          /\ DynamicTemplate(history[i].arg)
          /\ DynamicTemplate(history[j].arg)
          /\ Extends(history[j].arg, history[i].arg)
          /\ IsDispatch(k) )
        => /\ history[i].outcome # ValueErrorDuplicate
           /\ history[j].outcome # ValueErrorDuplicate
           /\ Matches(history[i].arg, history[k].arg)
              => history[k].outcome = Return(history[i].handler)
           /\ Matches(history[j].arg, history[k].arg)
              => history[k].outcome = Return(history[j].handler)
           /\ ( ~Matches(history[i].arg, history[k].arg)
                /\ ~Matches(history[j].arg, history[k].arg) )
              => history[k].outcome = MissingRoute

\* C8: depth mismatch.  Dispatching a path whose number of segments
\* differs from that of every template passed to register so far fails
\* with MissingRoute.
DepthMismatch ==
    \A j \in Calls :
        ( /\ IsDispatch(j)
          /\ \A i \in RegistersBefore(j) :
                 Len(ComponentsOf(history[i].arg))
                 # Len(ComponentsOf(history[j].arg)) )
        => history[j].outcome = MissingRoute

TemplateRejection ==
    \A i \in Calls :
        (history[i].op = "make" /\ Malformed(history[i].arg))
        => history[i].outcome = ValueErrorTemplate

\* The segment the specification assigns to a component of a well-formed
\* template.
ExpectedSegment(c) ==
    IF CaptureComponent(c)
    THEN _CaptureSegment(SubSeq(c, 2, Len(c) - 1))
    ELSE Literal(c)

\* The capture map of a template: position (from 0) to capture name.
ExpectedCaptureMap(t) ==
    [k \in {j - 1 : j \in {n \in 1..Len(ComponentsOf(t)) :
                              CaptureComponent(ComponentsOf(t)[n])}} |->
        SubSeq(ComponentsOf(t)[k + 1], 2, Len(ComponentsOf(t)[k + 1]) - 1)]

\* C11: template classification.  _Route.make returns a route for every
\* well-formed template; its segments are a capture segment for each
\* {name} component and a literal segment for each other component; it is
\* a _StaticRoute iff the template has no capture, otherwise a
\* _DynamicRoute whose capture map sends each capture position to its name.
TemplateClassification ==
    \A i \in Calls :
        (history[i].op = "make" /\ WellFormed(history[i].arg))
        => /\ history[i].outcome = Return("route")
           /\ history[i].route._hash =
                  [k \in 1..Len(ComponentsOf(history[i].arg)) |->
                      ExpectedSegment(ComponentsOf(history[i].arg)[k])]
           /\ StaticTemplate(history[i].arg)
              => history[i].route.cls = "_StaticRoute"
           /\ DynamicTemplate(history[i].arg)
              => /\ history[i].route.cls = "_DynamicRoute"
                 /\ history[i].route.capture_map =
                        ExpectedCaptureMap(history[i].arg)

\* C12: dispatch is total over its two outcomes.  Every dispatch call
\* either returns a handler or fails with MissingRoute.
DispatchTotal ==
    \A j \in Calls :
        IsDispatch(j)
        => \/ history[j].outcome.kind = "return"
           \/ history[j].outcome = MissingRoute

\* C14: greedy walk without backtracking.  With '/a/{x}/c' and '/a/b/d'
\* the only templates passed to register, a dispatch of '/a/b/c' fails
\* with MissingRoute.
GreedyNoBacktrack ==
    \A i \in Calls : \A j \in Calls : \A k \in Calls :
        ( /\ RegistersBefore(k) = {i, j}
          /\ history[i].arg = T_axc
          /\ history[j].arg = T_abd
          /\ IsDispatch(k)
          /\ history[k].arg = P_abc )
        => history[k].outcome = MissingRoute

\* The step just taken appended a dispatch call to history.
DispatchStep ==
    /\ Len(history') = Len(history) + 1
    /\ history'[Len(history')].op = "dispatch"

\* C15: dispatch is read-only.  A dispatch step leaves the static table
\* and the trie unchanged, whatever its outcome, and the two lookups change
\* on register steps only.
DispatchReadOnly ==
    [][ /\ DispatchStep => UNCHANGED <<static_lookup, dynamic_lookup>>
        /\ ~UNCHANGED <<static_lookup, dynamic_lookup>> => RegisterStep
      ]_vars

\* A dispatch was made on a router that holds a registration.
DispatchReadOnlyWitness ==
    /\ Len(history) >= 2
    /\ static_lookup # {}
    /\ history[Len(history)].op = "dispatch"
    /\ history[Len(history)].outcome.kind = "raise"

\* The sequence of trie keys of a route's segments.
EdgeKeys(segments) == [k \in 1..Len(segments) |-> TrieKey(segments[k])]

\* C18: structural invariant.  Every key of the static table is a route
\* without capture segment; every terminator of the trie holds a route with
\* at least one capture, at the node whose edge keys from the root are the
\* route's segments in order, and every index of its capture map is a
\* position of a path of that depth.
StructuralInvariant ==
    /\ \A item \in static_lookup :
           /\ item.key.cls = "_StaticRoute"
           /\ \A k \in 1..Len(item.key._hash) :
                  item.key._hash[k].kind = "str"
    /\ \A t \in dynamic_lookup.term :
           /\ t.at \in dynamic_lookup.nodes
           /\ \E k \in 1..Len(t.route._hash) :
                  t.route._hash[k].kind = "capture"
           /\ Len(t.at) = Len(t.route._hash)
           /\ t.at = EdgeKeys(t.route._hash)
           /\ \A n \in DOMAIN t.route.capture_map : n \in 0..(Len(t.at) - 1)

\* Two static routes were stored by register calls.
StructuralInvariantWitness ==
    /\ Cardinality(static_lookup) >= 2
    /\ \E i \in Calls : Registered(i) /\ history[i].arg = T_abd
    /\ \E i \in Calls : IsRegister(i) /\ history[i].arg = T_pi

\* Call i returned a route.
ReturnedRoute(i) == history[i].outcome = Return("route")

\* C13: leading-slash insignificance.  For a text P without leading slash,
\* the routes made from the templates '/'+P and P are equal, the routes
\* parsed from the incoming paths '/'+P and P are equal _StaticRoutes, and
\* the route made from and the route parsed from the same placeholder-free
\* string are equal _StaticRoutes.
LeadingSlashInsignificance ==
    \A i \in Calls : \A j \in Calls :
        /\ ( /\ history[i].op = history[j].op
             /\ history[i].op \in {"make", "parse"}
             /\ Head(history[j].arg) # "/"
             /\ history[i].arg = <<"/">> \o history[j].arg
             /\ ReturnedRoute(i) /\ ReturnedRoute(j) )
           => /\ _Route__eq__(history[i].route, history[j].route)
              /\ history[i].op = "parse"
                 => /\ history[i].route.cls = "_StaticRoute"
                    /\ history[j].route.cls = "_StaticRoute"
        /\ ( /\ history[i].op = "make" /\ history[j].op = "parse"
             /\ history[i].arg = history[j].arg
             /\ Opens(history[i].arg) = {} /\ Closes(history[i].arg) = {}
             /\ ReturnedRoute(i) /\ ReturnedRoute(j) )
           => /\ _Route__eq__(history[i].route, history[j].route)
              /\ history[i].route.cls = "_StaticRoute"
              /\ history[j].route.cls = "_StaticRoute"

\* The calls with call i and call i + 1 in the opposite order.
Swap(calls, i) ==
    [k \in 1..Len(calls) |->
        IF k = i THEN calls[i + 1]
        ELSE IF k = i + 1 THEN calls[i]
        ELSE calls[k]]

\* What the two lookups of a router hold, whichever objects hold it: the
\* segments and handler of every static entry, the nodes of the trie and
\* the handler at every terminator.
Contents(self) ==
    [static |-> {[segments |-> item.key._hash, cls |-> item.key.cls,
                  handler |-> item.value] : item \in self.static_lookup},
     nodes |-> self.dynamic_lookup.nodes,
     term |-> {[at |-> t.at, handler |-> t.route.handler] :
                  t \in self.dynamic_lookup.term}]

\* The outcome of dispatching every path on a router.
DispatchOutcomes(self) ==
    [p \in Paths |-> dispatch_parsed(self, parse(p, self.next_id))]

\* C17: registration order independence.  When two register calls made one
\* after the other both return and their templates are not duplicates of
\* each other, making them in the opposite order gives the same static
\* table, the same trie and the same dispatch outcome for every path.
OrderIndependence ==
    \A i \in Calls :
        ( /\ i + 1 \in Calls
          /\ Registered(i) /\ Registered(i + 1)
          /\ ~SameShape(history[i].arg, history[i + 1].arg) )
        => \E swapped \in {Replay(NewRouter, Swap(history, i))} :
               /\ Contents(swapped) = Contents(Router)
               /\ DispatchOutcomes(swapped) = DispatchOutcomes(Router)

\* '/a/b/d' and '/a' were registered one after the other, then a path was
\* dispatched.
OrderIndependenceWitness ==
    /\ Len(history) = 3
    /\ Registered(1) /\ history[1].arg = T_abd
    /\ Registered(2) /\ history[2].arg = T_a
    /\ IsDispatch(3)
    /\ Cardinality(static_lookup) = 2

====
